---- MODULE Spec2Model ----
(***************************************************************************)
(* Model of the Siigo invoicing client (siigo_client.py) and of the        *)
(* parking invoice helper built on it (parking_invoice.py).                *)
(*                                                                         *)
(* Python values are encoded as follows.                                   *)
(*   Optional[x]        <<>> for None, <<x>> for a value x                 *)
(*   str (token, body)  a TLA+ string                                      *)
(*   str (user input)   a sequence of one-character strings, so that       *)
(*                      strip() and upper() can be computed                *)
(*   datetime           a number of hours                                  *)
(*   parsed JSON        [tag |-> "dict" | "list" | "bytes", items |-> a    *)
(*                      set of <<key, Optional[str]>> pairs]               *)
(***************************************************************************)
EXTENDS Integers, Sequences, FiniteSets, TLC

VARIABLES
    now,            \* datetime.now(), in hours
    token,          \* SiigoClient._access_token : Optional[str]
    expiry,         \* SiigoClient._token_expiry : Optional[datetime]
    pc,             \* per thread: where the thread is in its client call
    op,             \* per thread: "request" (_make_request) or "pdf" (get_invoice_pdf)
    hdr,            \* per thread: the Authorization credential of the built headers
    nAuth,          \* per thread: auth calls issued by the current client call
    nApi,           \* per thread: API requests sent by the current client call
    resp,           \* per thread: the last HTTP response the call received
    outcome,        \* per thread: what the client call returned or raised
    authAlwaysOk,   \* every auth response so far was a success carrying a token
    jsonErrWrapped, \* requests' JSON decode error is a RequestException (requests >= 2.27)
    config,         \* parking_invoice.SIIGO_CONFIG
    epc,            \* emit_electronic_invoice: "idle", "create", "email", "done"
    ein,            \* emit_electronic_invoice: the arguments of the current call
    eresult,        \* emit_electronic_invoice: local variable result (Optional)
    eout            \* emit_electronic_invoice: what the call returned or raised

vars == <<now, token, expiry, pc, op, hdr, nAuth, nApi, resp, outcome,
          authAlwaysOk, jsonErrWrapped, config, epc, ein, eresult, eout>>

clientVars == <<token, expiry, pc, op, hdr, nAuth, nApi, resp, outcome, authAlwaysOk>>
emitVars == <<config, epc, ein, eresult, eout>>

----------------------------------------------------------------------------
(* Bounds and program constants *)

MaxTime == 36

\* The clock is read at a grain of hours. With one thread it moves hour by
\* hour; where the state space is larger it moves in the steps of CoarseSteps,
\* which reach the hour before the refresh margin, the hour of the margin and
\* the hour after it (22, 23 and 24 for a token obtained at 0).
HourSteps == {1}

CoarseSteps == {11, 12}

TOKEN_TTL_HOURS == 24

REFRESH_MARGIN_HOURS == 1

Threads == {"T1", "T2"}

MainThread == "T1"

None == <<>>

Some(x) == <<x>>

----------------------------------------------------------------------------
(* JSON and HTTP *)

Dict(items) == [tag |-> "dict", items |-> items]

EmptyDict == Dict({})

JsonList == [tag |-> "list", items |-> {}]

Bytes(content) == [tag |-> "bytes", items |-> {<<"content", Some(content)>>}]

\* response.json(): the parse of a body text; ok is FALSE where json() raises.
JsonLoads(text) ==
    CASE text = "{\"access_token\": \"tokA\"}" ->
            [ok |-> TRUE, value |-> Dict({<<"access_token", Some("tokA")>>})]
      [] text = "{\"access_token\": \"\"}" ->
            [ok |-> TRUE, value |-> Dict({<<"access_token", Some("")>>})]
      [] text = "{\"id\": \"F-1\"}" ->
            [ok |-> TRUE, value |-> Dict({<<"id", Some("F-1")>>})]
      [] text = "{\"Errors\": \"bad\"}" ->
            [ok |-> TRUE, value |-> Dict({<<"Errors", Some("bad")>>})]
      [] text = "{}" -> [ok |-> TRUE, value |-> EmptyDict]
      [] text = "[]" -> [ok |-> TRUE, value |-> JsonList]
      [] OTHER -> [ok |-> FALSE, value |-> EmptyDict]

HasKey(d, k) == \E p \in d.items : p[1] = k

\* dict.get(k): the value under k, None when the key is absent.
DictGet(d, k) == IF HasKey(d, k) THEN (CHOOSE p \in d.items : p[1] = k)[2] ELSE None

ErrorStatusCodes == {401, 500}

\* Bodies of a 2xx auth response: a token, an empty token, no token, a JSON
\* list, a body that is not JSON.
AuthBodies == {"{\"access_token\": \"tokA\"}", "{\"access_token\": \"\"}",
               "{}", "[]", "Unauthorized"}

\* Bodies of a 2xx API response: empty, an invoice, an object with no id, a
\* body that is not JSON.
ApiBodies == {"", "{\"id\": \"F-1\"}", "{}", "<html>"}

\* Bodies of a 4xx or 5xx response.
ErrorBodies == {"", "{\"Errors\": \"bad\"}", "<html>"}

\* No response received: requests raises a ConnectionError / Timeout.
TransportFailure == [status |-> None, text |-> ""]

ErrorResponses == {[status |-> Some(s), text |-> b] : s \in ErrorStatusCodes, b \in ErrorBodies}

AuthResponses == {TransportFailure} \cup ErrorResponses \cup
                 {[status |-> Some(200), text |-> b] : b \in AuthBodies}

ApiResponses == {TransportFailure} \cup ErrorResponses \cup
                {[status |-> Some(200), text |-> b] : b \in ApiBodies}

\* response.raise_for_status() raises HTTPError for a 4xx or 5xx status.
RaisesForStatus(r) == r.status[1] >= 400

----------------------------------------------------------------------------
(* Outcomes of a call *)

\* kind: "none" (no outcome yet), "return" or "raise"; exc and msg: the exception
\* class and the fixed part of its message; status and text: the status code and
\* response text it carries; value: the value returned, or the exception's
\* response attribute; missing: the keys a configuration error lists.
NoOutcome == [kind |-> "none", exc |-> "", msg |-> "", status |-> None,
              text |-> None, value |-> None, missing |-> <<>>]

Return(v) == [kind |-> "return", exc |-> "", msg |-> "", status |-> None,
              text |-> None, value |-> Some(v), missing |-> <<>>]

Raise(exc, msg, status, text, value) ==
    [kind |-> "raise", exc |-> exc, msg |-> msg, status |-> status,
     text |-> text, value |-> value, missing |-> <<>>]

\* The exception response.json() raises on a body that is not JSON, seen from a
\* handler "except requests.exceptions.RequestException".
JsonErrorCaught == jsonErrWrapped

----------------------------------------------------------------------------
(* SiigoClient: token manager *)

Truthy(o) == o # None /\ o[1] # ""

NeedsTokenRefreshOff(tok, exp, t) ==
    IF ~Truthy(tok) \/ exp = None THEN TRUE
    ELSE t > exp[1] - REFRESH_MARGIN_HOURS

NeedsTokenRefreshAnd(tok, exp, t) ==
    IF ~Truthy(tok) /\ exp = None THEN TRUE
    ELSE IF exp = None THEN FALSE
    ELSE t >= exp[1] - REFRESH_MARGIN_HOURS

NeedsTokenRefreshNoMargin(tok, exp, t) ==
    IF ~Truthy(tok) \/ exp = None THEN TRUE
    ELSE t >= exp[1]

\* _needs_token_refresh
NeedsTokenRefresh(tok, exp, t) ==
    IF ~Truthy(tok) \/ exp = None THEN TRUE
    ELSE t >= exp[1] - REFRESH_MARGIN_HOURS

\* f"Bearer {self._access_token}": the credential after "Bearer ".
FormatToken(tok) == IF tok = None THEN "None" ELSE tok[1]

NoResp == [status |-> None, text |-> ""]

Init ==
    /\ now = 0
    /\ token = None
    /\ expiry = None
    /\ pc = [t \in Threads |-> "idle"]
    /\ op = [t \in Threads |-> "none"]
    /\ hdr = [t \in Threads |-> None]
    /\ nAuth = [t \in Threads |-> 0]
    /\ nApi = [t \in Threads |-> 0]
    /\ resp = [t \in Threads |-> NoResp]
    /\ outcome = [t \in Threads |-> NoOutcome]
    /\ authAlwaysOk = TRUE
    /\ jsonErrWrapped \in BOOLEAN
    /\ config = [document_type_id |-> None, seller_id |-> None,
                 payment_type_id |-> None, tax_id |-> None]
    /\ epc = "idle"
    /\ ein = None
    /\ eresult = None
    /\ eout = NoOutcome

\* Entry of a client call on thread t of a client whose cache holds (tok, exp):
\* _get_auth_headers reads the cache and the clock (_needs_token_refresh) and
\* either issues the auth call or goes on to build the headers.
EnterCall(t, kind, tok, exp) ==
    /\ op' = [op EXCEPT ![t] = kind]
    /\ hdr' = [hdr EXCEPT ![t] = None]
    /\ nApi' = [nApi EXCEPT ![t] = 0]
    /\ resp' = [resp EXCEPT ![t] = NoResp]
    /\ outcome' = [outcome EXCEPT ![t] = NoOutcome]
    /\ IF NeedsTokenRefresh(tok, exp, now)
       THEN /\ pc' = [pc EXCEPT ![t] = "auth_wait"]
            /\ nAuth' = [nAuth EXCEPT ![t] = 1]
       ELSE /\ pc' = [pc EXCEPT ![t] = "build"]
            /\ nAuth' = [nAuth EXCEPT ![t] = 0]

\* A caller starts one of the client's operations on thread t.
StartOp(t) ==
    /\ pc[t] = "idle"
    /\ \E kind \in {"request", "pdf"} : EnterCall(t, kind, token, expiry)
    /\ UNCHANGED <<now, token, expiry, authAlwaysOk, jsonErrWrapped, emitVars>>

Finish(t, out) ==
    /\ pc' = [pc EXCEPT ![t] = "done"]
    /\ outcome' = [outcome EXCEPT ![t] = out]

AuthErrorOff(r) ==
    IF r.status = None
    THEN Raise("SiigoAuthError", "Connection error", None, None, None)
    ELSE Raise("SiigoAuthError", "Authentication failed", None, None, None)

\* _authenticate, the two except clauses: the error raised for a failed auth call.
AuthError(r) ==
    IF r.status = None
    THEN Raise("SiigoAuthError", "Connection error", None, None, None)
    ELSE Raise("SiigoAuthError", "Authentication failed", r.status, Some(r.text), None)

\* _authenticate, the cached token after a 2xx auth response whose body parsed
\* to the dict d: response.json().get("access_token").
TokenFrom(d) == DictGet(d, "access_token")

\* _authenticate, from the response of requests.post to the assignment of
\* _access_token (lines 51-53) or to the exception raised (lines 55-58).
AuthRespond(t) ==
    /\ pc[t] = "auth_wait"
    /\ \E r \in AuthResponses :
        /\ resp' = [resp EXCEPT ![t] = r]
        /\ authAlwaysOk' = (authAlwaysOk /\ r.status # None /\ ~RaisesForStatus(r)
                              /\ JsonLoads(r.text).ok
                              /\ JsonLoads(r.text).value.tag = "dict"
                              /\ Truthy(DictGet(JsonLoads(r.text).value, "access_token")))
        /\ IF r.status = None \/ RaisesForStatus(r)
           THEN Finish(t, AuthError(r)) /\ UNCHANGED token
           ELSE IF ~JsonLoads(r.text).ok
           THEN /\ Finish(t, IF JsonErrorCaught
                              THEN Raise("SiigoAuthError", "Connection error", None, None, None)
                              ELSE Raise("JSONDecodeError", "", None, None, None))
                /\ UNCHANGED token
           ELSE IF JsonLoads(r.text).value.tag # "dict"
           THEN /\ Finish(t, Raise("AttributeError", "", None, None, None))
                /\ UNCHANGED token
           ELSE /\ token' = TokenFrom(JsonLoads(r.text).value)
                /\ pc' = [pc EXCEPT ![t] = "set_expiry"]
                /\ UNCHANGED outcome
    /\ UNCHANGED <<now, expiry, op, hdr, nAuth, nApi, jsonErrWrapped, emitVars>>

\* datetime.now() + timedelta(hours=24)
NewExpiry(t) == Some(t + TOKEN_TTL_HOURS)

\* _authenticate, line 54.
SetExpiry(t) ==
    /\ pc[t] = "set_expiry"
    /\ expiry' = NewExpiry(now)
    /\ pc' = [pc EXCEPT ![t] = "build"]
    /\ UNCHANGED <<now, token, op, hdr, nAuth, nApi, resp, outcome,
                   authAlwaysOk, jsonErrWrapped, emitVars>>

\* _get_auth_headers, lines 34-38, and the request sent with these headers
\* (requests.request in _make_request, requests.get in get_invoice_pdf).
BuildAndSend(t) ==
    /\ pc[t] = "build"
    /\ hdr' = [hdr EXCEPT ![t] = Some(FormatToken(token))]
    /\ nApi' = [nApi EXCEPT ![t] = nApi[t] + 1]
    /\ pc' = [pc EXCEPT ![t] = "api_wait"]
    /\ UNCHANGED <<now, token, expiry, op, nAuth, resp, outcome,
                   authAlwaysOk, jsonErrWrapped, emitVars>>

MakeRequestOutcomeOff(r) ==
    IF r.status = None
    THEN Raise("SiigoAPIError", "Connection error", None, None, None)
    ELSE IF RaisesForStatus(r)
    THEN Raise("SiigoAPIError", "API request failed", r.status, Some(r.text), Some(EmptyDict))
    ELSE IF r.text = "" THEN Return(EmptyDict)
    ELSE IF JsonLoads(r.text).ok THEN Return(JsonLoads(r.text).value)
    ELSE IF JsonErrorCaught
    THEN Raise("SiigoAPIError", "Connection error", None, None, None)
    ELSE Raise("JSONDecodeError", "", None, None, None)

\* _make_request, lines 64-80: what the dispatcher returns or raises for the
\* response r of requests.request.
MakeRequestOutcome(r) ==
    IF r.status = None
    THEN Raise("SiigoAPIError", "Connection error", None, None, None)
    ELSE IF RaisesForStatus(r)
    THEN Raise("SiigoAPIError", "API request failed", r.status, Some(r.text),
               Some(IF JsonLoads(r.text).ok THEN JsonLoads(r.text).value ELSE EmptyDict))
    ELSE IF r.text = "" THEN Return(EmptyDict)
    ELSE IF JsonLoads(r.text).ok THEN Return(JsonLoads(r.text).value)
    ELSE IF JsonErrorCaught
    THEN Raise("SiigoAPIError", "Connection error", None, None, None)
    ELSE Raise("JSONDecodeError", "", None, None, None)

\* get_invoice_pdf, lines 132-137: only HTTPError is caught, so a transport
\* error leaves the method as the requests exception it is.
PdfOutcome(r) ==
    IF r.status = None
    THEN Raise("ConnectionError", "", None, None, None)
    ELSE IF RaisesForStatus(r)
    THEN Raise("SiigoAPIError", "Failed to get invoice PDF", r.status, None, None)
    ELSE Return(Bytes(r.text))

\* The response of the API request arrives.
ApiRespond(t) ==
    /\ pc[t] = "api_wait"
    /\ \E r \in ApiResponses :
        /\ resp' = [resp EXCEPT ![t] = r]
        /\ Finish(t, IF op[t] = "pdf" THEN PdfOutcome(r) ELSE MakeRequestOutcome(r))
    /\ hdr' = [hdr EXCEPT ![t] = None]
    /\ UNCHANGED <<now, token, expiry, op, nAuth, nApi,
                   authAlwaysOk, jsonErrWrapped, emitVars>>

\* The caller takes the outcome of the call; the thread is free for the next one.
CallerResumes(t) ==
    /\ pc[t] = "done"
    /\ pc' = [pc EXCEPT ![t] = "idle"]
    /\ op' = [op EXCEPT ![t] = "none"]
    /\ hdr' = [hdr EXCEPT ![t] = None]
    /\ nAuth' = [nAuth EXCEPT ![t] = 0]
    /\ nApi' = [nApi EXCEPT ![t] = 0]
    /\ resp' = [resp EXCEPT ![t] = NoResp]
    /\ outcome' = [outcome EXCEPT ![t] = NoOutcome]
    /\ UNCHANGED <<now, token, expiry, authAlwaysOk, jsonErrWrapped, emitVars>>

\* Time passes. The statements between a response and the next request
\* (lines 53-54 and 34-38) take no time at the grain of hours: the clock moves
\* while a thread waits for the network or for its caller.
Tick(steps) ==
    /\ \A t \in Threads : pc[t] \notin {"set_expiry", "build"}
    /\ \E d \in steps :
        /\ now + d <= MaxTime
        /\ now' = now + d
    /\ UNCHANGED <<clientVars, jsonErrWrapped, emitVars>>

ClientStep(t) ==
    \/ StartOp(t)
    \/ AuthRespond(t)
    \/ SetExpiry(t)
    \/ BuildAndSend(t)
    \/ ApiRespond(t)
    \/ CallerResumes(t)

\* One client used by one thread.
Next == ClientStep(MainThread) \/ Tick(HourSteps)

Spec == Init /\ [][Next]_vars

\* One client shared by two threads with no lock.
NextConc == (\E t \in Threads : ClientStep(t)) \/ Tick(CoarseSteps)

SpecConc == Init /\ [][NextConc]_vars

----------------------------------------------------------------------------
(* parking_invoice: configuration and emit_electronic_invoice *)

Whitespace == {" "}

RECURSIVE LStrip(_)
LStrip(s) == IF s # <<>> /\ Head(s) \in Whitespace THEN LStrip(Tail(s)) ELSE s

RECURSIVE RStrip(_)
RStrip(s) == IF s # <<>> /\ s[Len(s)] \in Whitespace
             THEN RStrip(SubSeq(s, 1, Len(s) - 1)) ELSE s

\* str.strip()
Strip(s) == RStrip(LStrip(s))

UpperChar(c) == CASE c = "a" -> "A" [] c = "b" -> "B" [] OTHER -> c

\* str.upper()
Upper(s) == [i \in 1..Len(s) |-> UpperChar(s[i])]

\* (x or ""), for an Optional[str] x
OrEmpty(o) == IF o = None THEN <<>> ELSE o[1]

\* int(x or 0), for an Optional[int] x
IntOrZero(o) == IF o = None THEN 0 ELSE o[1]

\* Truth value of an Optional[int]: None and 0 are false.
IntTruthy(o) == o # None /\ o[1] # 0

TextInputs == {None, Some(<<" ">>), Some(<<" ", "a", "b", " ">>)}

PlateInputs == TextInputs \cup {Some(<<>>)}

AmountInputs == {None, Some(-1), Some(0), Some(3)}

EmitInputs == [placa : PlateInputs, id_number : TextInputs, full_name : TextInputs,
               email : TextInputs, total_amount_cop : AmountInputs]

IdInputs == {0, 7}

TaxInputs == {None, Some(0), Some(5)}

\* emit_electronic_invoice, lines 42-46.
Normalize(in) ==
    [placa |-> Upper(Strip(OrEmpty(in.placa))),
     id_number |-> Strip(OrEmpty(in.id_number)),
     full_name |-> Strip(OrEmpty(in.full_name)),
     email |-> Strip(OrEmpty(in.email)),
     total_amount_cop |-> IntOrZero(in.total_amount_cop)]

ValidationErrorOff(n) ==
    IF n.placa = <<>> THEN Some("Factura electronica requiere placa del vehiculo")
    ELSE IF n.id_number = <<>> THEN Some("Factura electronica requiere NIT o cedula")
    ELSE IF n.full_name = <<>> THEN Some("Factura electronica requiere nombre o razon social")
    ELSE IF n.email = <<>> THEN Some("Factura electronica requiere correo electronico")
    ELSE IF n.total_amount_cop < 0 THEN Some("Monto total invalido para facturacion")
    ELSE None

\* emit_electronic_invoice, lines 48-57: the message of the ValueError raised
\* for the normalised arguments n, None when they pass.
ValidationError(n) ==
    IF n.placa = <<>> THEN Some("Factura electronica requiere placa del vehiculo")
    ELSE IF n.id_number = <<>> THEN Some("Factura electronica requiere NIT o cedula")
    ELSE IF n.full_name = <<>> THEN Some("Factura electronica requiere nombre o razon social")
    ELSE IF n.email = <<>> THEN Some("Factura electronica requiere correo electronico")
    ELSE IF n.total_amount_cop <= 0 THEN Some("Monto total invalido para facturacion")
    ELSE None

ValidationMessages ==
    {"Factura electronica requiere placa del vehiculo",
     "Factura electronica requiere NIT o cedula",
     "Factura electronica requiere nombre o razon social",
     "Factura electronica requiere correo electronico",
     "Monto total invalido para facturacion"}

ConfigMessage == "Faltan IDs de configuracion"

RequiredKeys == <<"document_type_id", "seller_id", "payment_type_id">>

\* _validar_config: the keys k of required with "not SIIGO_CONFIG.get(k)".
MissingConfig(cfg) == SelectSeq(RequiredKeys, LAMBDA k : ~IntTruthy(cfg[k]))

\* configurar_siigo
Configurar ==
    /\ epc = "idle"
    /\ \E d \in IdInputs, s \in IdInputs, p \in IdInputs, tax \in TaxInputs :
        config' = [document_type_id |-> Some(d), seller_id |-> Some(s),
                   payment_type_id |-> Some(p),
                   tax_id |-> IF IntTruthy(tax) THEN tax ELSE config.tax_id]
    /\ UNCHANGED <<now, clientVars, jsonErrWrapped, epc, ein, eresult, eout>>

\* emit_electronic_invoice from its call to the first network call (lines 42-93):
\* the arguments are normalised and validated, the configuration is checked, a
\* new SiigoClient is made (its cache empty) and create_invoice enters
\* _make_request. The body of the request is not part of the model: the remote
\* service answers as it likes.
EmitCall ==
    /\ epc = "idle"
    /\ pc[MainThread] = "idle"
    /\ \E in \in EmitInputs :
        /\ ein' = Some(in)
        /\ IF ValidationError(Normalize(in)) # None
           THEN /\ eout' = Raise("ValueError", ValidationError(Normalize(in))[1],
                                 None, None, None)
                /\ epc' = "done"
                /\ UNCHANGED clientVars
           ELSE IF MissingConfig(config) # <<>>
           THEN /\ eout' = [Raise("ValueError", ConfigMessage, None, None, None)
                               EXCEPT !.missing = MissingConfig(config)]
                /\ epc' = "done"
                /\ UNCHANGED clientVars
           ELSE /\ eout' = NoOutcome
                /\ epc' = "create"
                /\ token' = None
                /\ expiry' = None
                /\ authAlwaysOk' = TRUE
                /\ EnterCall(MainThread, "request", None, None)
    /\ eresult' = None
    /\ UNCHANGED <<now, jsonErrWrapped, config>>

AfterEmailOff(result, mail) == IF mail.kind = "raise" THEN mail ELSE Return(result)

\* emit_electronic_invoice, lines 95-101: whatever the email step did (mail is
\* its outcome), "except Exception: pass" drops it and result is returned.
AfterEmail(result, mail) == Return(result)

ThreadRests(t) ==
    /\ pc' = [pc EXCEPT ![t] = "idle"]
    /\ UNCHANGED <<token, expiry, op, hdr, nAuth, nApi, resp, outcome, authAlwaysOk>>

\* create_invoice has returned or raised (line 93); on a return the email step
\* starts (lines 95-97): result["id"] is evaluated, then send_invoice_email
\* enters _make_request.
EmitAfterCreate ==
    /\ epc = "create"
    /\ pc[MainThread] = "done"
    /\ IF outcome[MainThread].kind = "raise"
       THEN /\ eout' = outcome[MainThread]
            /\ epc' = "done"
            /\ eresult' = None
            /\ ThreadRests(MainThread)
       ELSE /\ eresult' = outcome[MainThread].value
            /\ IF Normalize(ein[1]).email = <<>>
               THEN /\ eout' = Return(outcome[MainThread].value[1])
                    /\ epc' = "done"
                    /\ ThreadRests(MainThread)
               ELSE IF ~HasKey(outcome[MainThread].value[1], "id")
               THEN /\ eout' = AfterEmail(outcome[MainThread].value[1],
                                          Raise("KeyError", "id", None, None, None))
                    /\ epc' = "done"
                    /\ ThreadRests(MainThread)
               ELSE /\ eout' = NoOutcome
                    /\ epc' = "email"
                    /\ EnterCall(MainThread, "request", token, expiry)
                    /\ UNCHANGED <<token, expiry, authAlwaysOk>>
    /\ UNCHANGED <<now, jsonErrWrapped, config, ein>>

\* send_invoice_email has returned or raised (lines 97-101).
EmitAfterEmail ==
    /\ epc = "email"
    /\ pc[MainThread] = "done"
    /\ eout' = AfterEmail(eresult[1], outcome[MainThread])
    /\ epc' = "done"
    /\ ThreadRests(MainThread)
    /\ UNCHANGED <<now, jsonErrWrapped, config, ein, eresult>>

\* The caller of emit_electronic_invoice takes its outcome; the call's client,
\* a local of the call, is gone with it.
EmitReturn ==
    /\ epc = "done"
    /\ epc' = "idle"
    /\ ein' = None
    /\ eresult' = None
    /\ eout' = NoOutcome
    /\ op' = [op EXCEPT ![MainThread] = "none"]
    /\ hdr' = [hdr EXCEPT ![MainThread] = None]
    /\ nAuth' = [nAuth EXCEPT ![MainThread] = 0]
    /\ nApi' = [nApi EXCEPT ![MainThread] = 0]
    /\ resp' = [resp EXCEPT ![MainThread] = NoResp]
    /\ outcome' = [outcome EXCEPT ![MainThread] = NoOutcome]
    /\ token' = None
    /\ expiry' = None
    /\ authAlwaysOk' = TRUE
    /\ UNCHANGED <<now, pc, jsonErrWrapped, config>>

\* The parking module: configuration calls and invoice emissions, one at a time.
NextEmit ==
    \/ Configurar
    \/ EmitCall
    \/ AuthRespond(MainThread)
    \/ SetExpiry(MainThread)
    \/ BuildAndSend(MainThread)
    \/ ApiRespond(MainThread)
    \/ EmitAfterCreate
    \/ EmitAfterEmail
    \/ EmitReturn
    \/ Tick(CoarseSteps)

SpecEmit == Init /\ [][NextEmit]_vars

----------------------------------------------------------------------------
(* Properties *)

M == MainThread

\* A remote call failed: no response was received, or the response is a 4xx/5xx.
CallFailed(r) == r.status = None \/ r.status[1] >= 400

\* C1: with an auth endpoint that has always succeeded and returned a token, an
\* operation of a sequentially used client issues one auth call if it is the
\* first one (nothing cached yet) or starts at now >= expiry - 1h, and none if it
\* starts at now < expiry - 1h; the count does not change during the operation,
\* and the refresh sets expiry to the time of the refresh + 24h.
C1_AuthCallsPerOperation ==
    [][/\ (authAlwaysOk /\ pc[M] = "idle" /\ pc'[M] # "idle")
            => /\ nAuth'[M] = (IF expiry = None \/ now >= expiry[1] - 1 THEN 1 ELSE 0)
               /\ (pc'[M] = "auth_wait") = (nAuth'[M] = 1)
       /\ (pc[M] # "idle" /\ pc'[M] # "idle") => nAuth'[M] = nAuth[M]
       /\ (pc[M] = "set_expiry" /\ pc'[M] = "build") => expiry' = Some(now + 24)
      ]_vars

\* C1 witness: a refresh in flight for a token that was obtained earlier and has
\* reached the refresh margin.
C1_RefreshOfStaleToken ==
    /\ authAlwaysOk
    /\ pc[M] = "auth_wait"
    /\ nAuth[M] = 1
    /\ Truthy(token)
    /\ expiry # None
    /\ now >= expiry[1] - 1

\* C2: when the auth call fails (no response, or a 4xx/5xx response) the
\* operation ends raising SiigoAuthError, which carries the status code and the
\* response text when a response was received; the operation issued that one
\* auth call and no API request; and from the start of the auth call to the
\* error the cached token and expiry are not changed.
C2_AuthFailureKeepsCache ==
    [][/\ (pc[M] = "auth_wait" /\ pc'[M] = "done" /\ CallFailed(resp'[M]))
            => /\ outcome'[M].kind = "raise"
               /\ outcome'[M].exc = "SiigoAuthError"
               /\ (resp'[M].status # None
                     => /\ outcome'[M].status = resp'[M].status
                        /\ outcome'[M].text = Some(resp'[M].text))
               /\ nAuth'[M] = 1
               /\ nApi'[M] = 0
               /\ token' = token
               /\ expiry' = expiry
       /\ pc'[M] = "auth_wait" => (token' = token /\ expiry' = expiry)
      ]_vars

\* C2 witness: a 401 on the refresh of a token cached earlier; the error carries
\* 401 and the token is still cached.
C2_RefreshFailedTokenKept ==
    /\ pc[M] = "done"
    /\ outcome[M].exc = "SiigoAuthError"
    /\ outcome[M].status = Some(401)
    /\ nApi[M] = 0
    /\ Truthy(token)
    /\ expiry # None

\* C3: in sequential use, at the moment the headers of an API request are built
\* the cache holds an expiry with now < expiry - 1h; a token at or past
\* expiry - 1h has been replaced by a refresh before.
C3_RequestsUseFreshToken ==
    pc[M] = "build" => (expiry # None /\ now < expiry[1] - 1)

\* C3 witness: headers built from the cached token, with no refresh, in the last
\* hour in which it is fresh.
C3_CachedTokenUsedAtLastFreshHour ==
    /\ pc[M] = "build"
    /\ nAuth[M] = 0
    /\ Truthy(token)
    /\ expiry # None
    /\ now = expiry[1] - 2

\* C4: a failed remote call (no response, or a 4xx/5xx response) of any
\* operation surfaces as SiigoAuthError when it was the auth call and as
\* SiigoAPIError when it was the API request, and as nothing else.
C4_OnlyAuthOrApiErrors ==
    (pc[M] = "done" /\ CallFailed(resp[M]))
        => /\ outcome[M].kind = "raise"
           /\ outcome[M].exc = (IF nApi[M] = 0 THEN "SiigoAuthError" ELSE "SiigoAPIError")

\* C5 as stated: once the request is sent, _make_request raises SiigoAPIError
\* with the response's status and the parsed error body (empty if it does not
\* parse) on a 4xx/5xx, raises SiigoAPIError with no status when no response
\* was received, and on success returns the parsed body, or an empty dict when
\* the body is empty.
C5_DispatcherOutcomesAsStated ==
    (pc[M] = "done" /\ op[M] = "request" /\ nApi[M] = 1)
        => IF resp[M].status = None
           THEN /\ outcome[M].exc = "SiigoAPIError"
                /\ outcome[M].status = None
           ELSE IF resp[M].status[1] >= 400
           THEN /\ outcome[M].exc = "SiigoAPIError"
                /\ outcome[M].status = resp[M].status
                /\ outcome[M].value = Some(IF JsonLoads(resp[M].text).ok
                                           THEN JsonLoads(resp[M].text).value
                                           ELSE EmptyDict)
           ELSE /\ outcome[M].kind = "return"
                /\ outcome[M].value = Some(IF resp[M].text = "" THEN EmptyDict
                                           ELSE JsonLoads(resp[M].text).value)

\* C5 amended: as stated, except that a success response whose body is not
\* empty and is not JSON returns nothing: the decode error is raised, as a
\* SiigoAPIError with no status code where requests makes it a
\* RequestException, and as the decode error itself otherwise.
C5_DispatcherOutcomes ==
    (pc[M] = "done" /\ op[M] = "request" /\ nApi[M] = 1)
        => IF resp[M].status = None
           THEN /\ outcome[M].exc = "SiigoAPIError"
                /\ outcome[M].status = None
           ELSE IF resp[M].status[1] >= 400
           THEN /\ outcome[M].exc = "SiigoAPIError"
                /\ outcome[M].status = resp[M].status
                /\ outcome[M].value = Some(IF JsonLoads(resp[M].text).ok
                                           THEN JsonLoads(resp[M].text).value
                                           ELSE EmptyDict)
           ELSE IF resp[M].text = "" \/ JsonLoads(resp[M].text).ok
           THEN /\ outcome[M].kind = "return"
                /\ outcome[M].value = Some(IF resp[M].text = "" THEN EmptyDict
                                           ELSE JsonLoads(resp[M].text).value)
           ELSE /\ outcome[M].kind = "raise"
                /\ outcome[M].status = None
                /\ outcome[M].exc = (IF jsonErrWrapped THEN "SiigoAPIError"
                                     ELSE "JSONDecodeError")

\* C5 witness: a 500 whose body does not parse became a SiigoAPIError carrying
\* 500 and an empty body.
C5_ErrorWithUnparsableBody ==
    /\ pc[M] = "done"
    /\ op[M] = "request"
    /\ resp[M] = [status |-> Some(500), text |-> "<html>"]
    /\ outcome[M].exc = "SiigoAPIError"
    /\ outcome[M].status = Some(500)
    /\ outcome[M].value = Some(EmptyDict)

\* A text argument that is empty after trimming (None is normalised to "").
IsBlank(o) == o = None \/ \A i \in 1..Len(o[1]) : o[1][i] = " "

InvalidArguments(in) ==
    \/ IsBlank(in.placa)
    \/ IsBlank(in.id_number)
    \/ IsBlank(in.full_name)
    \/ IsBlank(in.email)
    \/ (in.total_amount_cop # None /\ in.total_amount_cop[1] <= 0)

ValidArguments(in) ==
    /\ ~IsBlank(in.placa)
    /\ ~IsBlank(in.id_number)
    /\ ~IsBlank(in.full_name)
    /\ ~IsBlank(in.email)
    /\ in.total_amount_cop # None
    /\ in.total_amount_cop[1] > 0

IsConfigError(out) == out.kind = "raise" /\ out.exc = "ValueError" /\ out.msg = ConfigMessage

\* C6: a call of emit_electronic_invoice with a plate, id number, name or email
\* that is empty after trimming, or with an amount that is zero or negative,
\* ends in that step with a validation ValueError and without any network call
\* (the client thread does not move, no auth call, no API request), whatever
\* the configuration is.
C6_ValidationBeforeNetwork ==
    [][(epc = "idle" /\ epc' # "idle" /\ InvalidArguments(ein'[1]))
          => /\ epc' = "done"
             /\ eout'.kind = "raise"
             /\ eout'.exc = "ValueError"
             /\ eout'.msg \in ValidationMessages
             /\ pc[M] = "idle"
             /\ UNCHANGED <<pc, nAuth, nApi>>
      ]_vars

\* C6 witness: an amount of zero is refused although every other argument is
\* good and the configuration is complete.
C6_ZeroAmountRefused ==
    /\ epc = "done"
    /\ ein # None
    /\ ein[1].total_amount_cop = Some(0)
    /\ ~IsBlank(ein[1].placa) /\ ~IsBlank(ein[1].id_number)
    /\ ~IsBlank(ein[1].full_name) /\ ~IsBlank(ein[1].email)
    /\ MissingConfig(config) = <<>>
    /\ eout.msg = "Monto total invalido para facturacion"
    /\ pc[M] = "idle"

\* C7: a call of emit_electronic_invoice with valid arguments fails with the
\* configuration error if and only if one of the three required IDs has not
\* been set (is still None), the error lists exactly the keys not set, and it
\* is raised before any network call.
C7_ConfigErrorIffUnset ==
    [][(epc = "idle" /\ epc' # "idle" /\ ValidArguments(ein'[1]))
          => /\ IsConfigError(eout') = (\E i \in 1..3 : config[RequiredKeys[i]] = None)
             /\ IsConfigError(eout')
                   => /\ eout'.missing = SelectSeq(RequiredKeys, LAMBDA k : config[k] = None)
                      /\ UNCHANGED <<pc, nAuth, nApi>>
      ]_vars

\* C8: when emit_electronic_invoice has ended after create_invoice returned a
\* record, it has returned that record, whatever the email step did.
C8_EmailFailureNotSurfaced ==
    (epc = "done" /\ eresult # None) => eout = Return(eresult[1])

\* C8 witness: the invoice was created, the email step raised an authentication
\* error, and the call returned the invoice.
C8_EmailAuthErrorSwallowed ==
    /\ epc = "done"
    /\ eresult # None
    /\ outcome[M].kind = "raise"
    /\ outcome[M].exc = "SiigoAuthError"
    /\ eout.kind = "return"

\* C9: with two threads on one client there is no lock between the freshness
\* check and the token set: a thread that enters a call while the cached token
\* is absent or stale issues an auth call whatever the other thread is doing,
\* also when the other thread's auth call for that token is in flight.
C9_StaleEntryAlwaysAuthenticates ==
    [][\A t \in Threads :
          (/\ pc[t] = "idle"
           /\ pc'[t] # "idle"
           /\ (~Truthy(token) \/ expiry = None \/ now >= expiry[1] - 1))
             => (pc'[t] = "auth_wait" /\ nAuth'[t] = 1)
      ]_vars

\* C9 witness: both threads have an auth call in flight for the same absent
\* token (the cache has never been written).
C9_DuplicateAuthCalls ==
    /\ pc["T1"] = "auth_wait"
    /\ pc["T2"] = "auth_wait"
    /\ nAuth["T1"] = 1
    /\ nAuth["T2"] = 1
    /\ token = None
    /\ expiry = None

\* C10: whenever headers have been built the cached token is a non-empty token
\* and the Authorization header carries it, and a cache with an expiry never
\* holds an absent token.
C10_HeadersCarryRealToken ==
    /\ pc[M] = "api_wait" => (Truthy(token) /\ hdr[M] = token)
    /\ expiry # None => Truthy(token)

====
